---- MODULE Spec2Model ----
(***************************************************************************)
(* OxyMap, crates/oxy_wasm/src/lib.rs: GeoProcessor, the in-memory event   *)
(* store with its R-tree, as a state machine.  One action per exported     *)
(* method (load_data, apply_filters, export_csv, memory_footprint).        *)
(*                                                                         *)
(* Numbers.  f64 values are modelled on a binary fixed-point grid whose    *)
(* unit is 1/F64Unit, f32 values on the coarser grid of multiples of       *)
(* F32Step units; "as f32" rounds to the nearest f32 value, ties to even.  *)
(* u32 values are their four bytes, so that the 32-bit width of            *)
(* memory_footprint's multiplication is kept.                              *)
(*                                                                         *)
(* Every record constructor lists its fields in the order in which the     *)
(* field names first occur in this module, the order TLC keeps them in.    *)
(***************************************************************************)
EXTENDS Integers, Sequences, FiniteSets, TLC

(* Largest number of features in one input buffer. *)
MaxFeatures == 3

(* struct ActivistEvent: the records, numbers in grid units. *)
ActivistEvents ==
    [id : STRING, org : STRING, date : Int, sentiment : Int, momentum : Int,
     geometry : Seq(Int)]

(* ---------------------------------------------------------------------- *)
(* Option<T>: None is the empty sequence, Some(v) the one-element one.     *)
None == <<>>
Some(v) == <<v>>

(* ---------------------------------------------------------------------- *)
(* Numbers                                                                 *)
F64Unit == 2^6
F32Step == 2^2

(* Round n/d to the nearest integer, ties to the even one (d > 0). *)
RoundDiv(n, d) ==
    LET q == n \div d
        r == n % d
    IN  IF 2 * r < d THEN q
        ELSE IF 2 * r > d THEN q + 1
        ELSE IF q % 2 = 0 THEN q ELSE q + 1

(* "as f32" seen through "as f64": the f64 value of the nearest f32. *)
AsF32(x) == RoundDiv(x, F32Step) * F32Step

(* str::parse::<f64> on the texts the attribute values are drawn from:    *)
(* Ok(the nearest f64) for a decimal, Err for anything else.               *)
Decimal(tenths) == Some(RoundDiv(tenths * F64Unit, 10))

parse(text) ==
    CASE text = "-0.2" -> Decimal(-2)
      [] text = "0.5"  -> Decimal(5)
      [] text = "0.9"  -> Decimal(9)
      [] text = "1.0"  -> Decimal(10)
      [] text = "2.0"  -> Decimal(20)
      [] text = "3.0"  -> Decimal(30)
      [] OTHER         -> None

unwrap_or(opt, default) == IF opt = None THEN default ELSE opt[1]

(* properties.get(key): Some(text) when the feature carries the key. *)
get(properties, key) ==
    IF key \in DOMAIN properties THEN Some(properties[key]) ELSE None

(* .get(key).unwrap_or(&0.0).parse().unwrap_or(0.0): a missing and an      *)
(* unparsable value both give 0.0.                                         *)
number_property(properties, key) ==
    LET text == get(properties, key)
    IN  IF text = None THEN 0 ELSE unwrap_or(parse(text[1]), 0)

(* ---------------------------------------------------------------------- *)
(* The decoded input: flatgeobuf::read gives Err on a malformed buffer, or *)
(* the features.  A feature is a point or some other geometry.             *)
fa == [id |-> "a", geometry |-> [type |-> "Point", coords |-> <<1, 1>>],
       properties |-> [org |-> "X", date |-> "1.0", sentiment |-> "0.5"]]
fb == [id |-> "b", geometry |-> [type |-> "Point", coords |-> <<2, 1>>],
       properties |-> [org |-> "Y", date |-> "2.0", sentiment |-> "-0.2",
                       momentum |-> "0.9"]]
fc == [id |-> "c", geometry |-> [type |-> "Point", coords |-> <<1, 1>>],
       properties |-> [org |-> "X", date |-> "3.0", sentiment |-> "0.9"]]
fd == [id |-> "d", geometry |-> [type |-> "Point", coords |-> <<0, 2>>],
       properties |-> [date |-> "soon", sentiment |-> "0.9", momentum |-> "1.0"]]
fl == [id |-> "l", geometry |-> [type |-> "LineString", coords |-> <<0, 0, 2, 2>>],
       properties |-> [org |-> "X", date |-> "2.0", sentiment |-> "0.5"]]

Features == {fa, fb, fc, fd, fl}

(* The sequences of at most n distinct elements of S: a buffer holds each  *)
(* feature once, the ids being unique.                                     *)
RECURSIVE SeqsUpTo(_, _)
SeqsUpTo(S, n) ==
    IF n = 0 THEN {<<>>}
    ELSE LET shorter == SeqsUpTo(S, n - 1)
             longest == {t \in shorter : Len(t) = n - 1}
             fresh(t) == {x \in S : \A i \in 1..Len(t) : t[i] # x}
         IN  shorter \cup UNION {{Append(t, x) : x \in fresh(t)} : t \in longest}

Malformed == [ok |-> FALSE, features |-> <<>>]
Buffers ==
    {Malformed} \cup
    {[ok |-> TRUE, features |-> fs] : fs \in SeqsUpTo(Features, MaxFeatures)}

(* flatgeobuf::read(reader) *)
read(data) == IF data.ok THEN Some(data.features) ELSE None

(* feature.geometry.as_point() *)
as_point_any(geometry) == Some(geometry.coords)
as_point(geometry) ==
    IF geometry.type = "Point" THEN Some(geometry.coords) ELSE None

(* ---------------------------------------------------------------------- *)
(* ActivistEvent and the R-tree entry built for it                         *)
ActivistEvent(feature, point) ==
    [id        |-> feature.id,
     org       |-> unwrap_or(get(feature.properties, "org"), ""),
     date      |-> number_property(feature.properties, "date"),
     sentiment |-> AsF32(number_property(feature.properties, "sentiment")),
     momentum  |-> AsF32(number_property(feature.properties, "momentum")),
     geometry  |-> point]

RectangleSwapped(event, point) ==
    [data |-> event, mbr |-> <<point[1], point[1], point[2], point[2]>>]
RectangleWithData(event, point) ==
    [data |-> event, mbr |-> <<point[1], point[2], point[1], point[2]>>]

(* RTree::new() and RTree::insert: the tree as its entries, listed in the  *)
(* order of insertion; nothing below depends on that order.                *)
RTreeNew == <<>>
insert(tree, entry) == Append(tree, entry)

GeoProcessor(evs, tree) == [events |-> evs, spatial_index |-> tree]

(* GeoProcessor::new *)
new == GeoProcessor(<<>>, RTreeNew)

(* The loop of load_data over the features, from the locals built so far. *)
RECURSIVE load_loop(_, _)
load_loop(features, built) ==
    IF features = <<>> THEN built
    ELSE LET feature == Head(features)
             point   == as_point(feature.geometry)
         IN  IF point = None
             THEN load_loop(Tail(features), built)
             ELSE LET event == ActivistEvent(feature, point[1])
                  IN  load_loop(Tail(features),
                         GeoProcessor(Append(built.events, event),
                                      insert(built.spatial_index,
                                             RectangleWithData(event, point[1]))))

(* load_data: the store after the call and the value returned. *)
load_data_clobber(self, data) ==
    LET features == read(data)
    IN  IF features = None
        THEN [self |-> new, ret |-> [kind |-> "Err"]]
        ELSE LET built == load_loop(features[1], new)
             IN  [self |-> built, ret |-> [kind |-> "Ok", value |-> built]]
load_data_events_only(self, data) ==
    LET features == read(data)
    IN  IF features = None
        THEN [self |-> self, ret |-> [kind |-> "Err"]]
        ELSE LET built == load_loop(features[1], new)
                 kept  == GeoProcessor(built.events, self.spatial_index)
             IN  [self |-> kept, ret |-> [kind |-> "Ok", value |-> kept]]
load_data(self, data) ==
    LET features == read(data)
    IN  IF features = None
        THEN [self |-> self, ret |-> [kind |-> "Err"]]
        ELSE LET built == load_loop(features[1], new)
             IN  [self |-> built, ret |-> [kind |-> "Ok", value |-> built]]

(* ---------------------------------------------------------------------- *)
(* Spatial index query (rstar's envelope query): the entries whose box     *)
(* intersects the query box <<minx, miny, maxx, maxy>>.                    *)
intersects(a, b) ==
    /\ a[1] <= b[3] /\ b[1] <= a[3]
    /\ a[2] <= b[4] /\ b[2] <= a[4]

query_box(tree, box) ==
    LET hit(entry) == intersects(entry.mbr, box)
    IN  SelectSeq(tree, hit)

(* ---------------------------------------------------------------------- *)
(* apply_filters                                                           *)

(* A filter request of the host: org and bounding_box are optional. *)
Orgs == {None, Some("X"), Some("Y")}
DateRanges == {<<0, 3 * F64Unit>>, <<2 * F64Unit, 3 * F64Unit>>, <<3 * F64Unit, F64Unit>>}
SentimentRanges == {<<0, F64Unit>>, <<5 * F64Unit, F64Unit>>}
Boxes == {None, Some(<<1, 1, 2, 1>>)}

Requests ==
    [org : Orgs, date_range : DateRanges, sentiment_range : SentimentRanges,
     bounding_box : Boxes]

(* The org parameter is a plain &str: a request without an org reaches the *)
(* method as the empty string.                                             *)
org_arg(org) == unwrap_or(org, "")

(* The condition of the if in the loop. *)
matches_unordered(event, org, date_range, sentiment_range) ==
    LET lo(r) == IF r[1] <= r[2] THEN r[1] ELSE r[2]
        hi(r) == IF r[1] <= r[2] THEN r[2] ELSE r[1]
    IN  /\ event.org = org
        /\ event.date >= lo(date_range)
        /\ event.date <= hi(date_range)
        /\ event.sentiment >= lo(sentiment_range)
        /\ event.sentiment <= hi(sentiment_range)
matches(event, org, date_range, sentiment_range) ==
    /\ event.org = org
    /\ event.date >= date_range[1]
    /\ event.date <= date_range[2]
    /\ event.sentiment >= sentiment_range[1]
    /\ event.sentiment <= sentiment_range[2]

(* The loop over &self.events, pushing the matching events. *)
RECURSIVE filter_loop_front(_, _, _, _, _)
filter_loop_front(evs, org, date_range, sentiment_range, filtered_events) ==
    IF evs = <<>> THEN filtered_events
    ELSE filter_loop_front(Tail(evs), org, date_range, sentiment_range,
            IF matches(Head(evs), org, date_range, sentiment_range)
            THEN <<Head(evs)>> \o filtered_events
            ELSE filtered_events)
RECURSIVE filter_loop(_, _, _, _, _)
filter_loop(evs, org, date_range, sentiment_range, filtered_events) ==
    IF evs = <<>> THEN filtered_events
    ELSE filter_loop(Tail(evs), org, date_range, sentiment_range,
            IF matches(Head(evs), org, date_range, sentiment_range)
            THEN Append(filtered_events, Head(evs))
            ELSE filtered_events)

(* apply_filters: the events iterated and the JSON document returned (the  *)
(* array of the matching events, field by field).                          *)
apply_filters(self, org, date_range, sentiment_range) ==
    [ret     |-> [kind |-> "Json",
                  value |-> filter_loop(self.events, org, date_range,
                                        sentiment_range, <<>>)],
     scanned |-> self.events]

(* ---------------------------------------------------------------------- *)
(* export_csv                                                              *)
Header == <<"id", "org", "date", "sentiment", "momentum", "geometry">>

RECURSIVE join(_, _)
join(strings, sep) ==
    IF strings = <<>> THEN ""
    ELSE IF Len(strings) = 1 THEN strings[1]
    ELSE strings[1] \o sep \o join(Tail(strings), sep)

(* The geometry column: the coordinates' texts joined by ",", which the    *)
(* writer quotes because the field holds the delimiter.                    *)
geometry_field(geometry) ==
    LET text == join([i \in 1..Len(geometry) |-> ToString(geometry[i])], ",")
    IN  IF Len(geometry) > 1 THEN "\"" \o text \o "\"" ELSE text

csv_row(event) ==
    <<event.id, event.org, ToString(event.date), ToString(event.sentiment),
      ToString(event.momentum), geometry_field(event.geometry)>>

(* The loop over &self.events, writing one row per event. *)
RECURSIVE csv_rows(_, _)
csv_rows(evs, written) ==
    IF evs = <<>> THEN written
    ELSE csv_rows(Tail(evs), Append(written, csv_row(Head(evs))))

(* export_csv: the rows written, the header first. *)
export_csv(self) == [kind |-> "Csv", value |-> csv_rows(self.events, <<Header>>)]

(* ---------------------------------------------------------------------- *)
(* memory_footprint                                                        *)

(* A u32 is its four bytes, least significant first. *)
as_u32(n) ==
    <<n % 256, (n \div 256) % 256, (n \div 65536) % 256, (n \div 16777216) % 256>>

(* Wrapping u32 multiplication: the low four bytes of the long product. *)
mul_u32(a, b) ==
    LET term(k) ==
            LET pairs == {i \in 1..4 : k + 1 - i \in 1..4}
                RECURSIVE sum(_)
                sum(S) == IF S = {} THEN 0
                          ELSE LET i == CHOOSE j \in S : TRUE
                               IN  a[i] * b[k + 1 - i] + sum(S \ {i})
            IN  sum(pairs)
        c1 == term(1)
        c2 == term(2) + c1 \div 256
        c3 == term(3) + c2 \div 256
        c4 == term(4) + c3 \div 256
    IN  <<c1 % 256, c2 % 256, c3 % 256, c4 % 256>>

(* std::mem::size_of::<ActivistEvent>() on wasm32: three 12-byte vectors,  *)
(* an f64 and two f32, aligned to 8.                                       *)
SizeOfActivistEvent == 56

(* A Vec never holds more than isize::MAX bytes, isize being 32 bits wide  *)
(* on wasm32: the largest number of records self.events can hold.          *)
IsizeMax == (2^30 - 1) * 2 + 1
MaxVecLen == IsizeMax \div SizeOfActivistEvent

footprint_ref_size(len) == mul_u32(as_u32(len), as_u32(4))
footprint(len) == mul_u32(as_u32(len), as_u32(SizeOfActivistEvent))

memory_footprint(self) == [kind |-> "U32", value |-> footprint(Len(self.events))]

(* ---------------------------------------------------------------------- *)
(* The state machine                                                       *)
VARIABLES
    events,         \* self.events
    spatial_index,  \* self.spatial_index
    call,           \* the last call of the host, with its arguments
    ret,            \* the value that call returned
    view,           \* the filtered view the host last got from this store
    scanned         \* the candidates that query iterated over

vars == <<events, spatial_index, call, ret, view, scanned>>

self == GeoProcessor(events, spatial_index)

Init ==
    /\ events = new.events
    /\ spatial_index = new.spatial_index
    /\ call = [op |-> "new"]
    /\ ret = [kind |-> "Ok", value |-> new]
    /\ view = None
    /\ scanned = None

(* What the call record keeps of a buffer: whether it decodes, and the id  *)
(* and geometry type of each feature, in order.                            *)
RECURSIVE id_and_type(_)
id_and_type(features) ==
    IF features = <<>> THEN <<>>
    ELSE <<<<Head(features).id, Head(features).geometry.type>>>>
         \o id_and_type(Tail(features))

summary(data) == [ok |-> data.ok, features |-> id_and_type(data.features)]

(* The steps, given the outcome r of the method on the current store. *)
LoadDataStep(data, r) ==
    /\ events' = r.self.events
    /\ spatial_index' = r.self.spatial_index
    /\ call' = [data |-> summary(data), op |-> "load_data"]
    /\ ret' = r.ret
    /\ view' = IF r.ret.kind = "Ok" THEN None ELSE view
    /\ scanned' = IF r.ret.kind = "Ok" THEN None ELSE scanned

LoadData == \E data \in Buffers : LoadDataStep(data, load_data(self, data))

ApplyFiltersStep(req, r) ==
    /\ call' = [op |-> "apply_filters",
                 req |-> [org |-> req.org, date_range |-> req.date_range,
                          sentiment_range |-> req.sentiment_range,
                          bounding_box |-> req.bounding_box]]
    /\ ret' = r.ret
    /\ view' = Some(r.ret.value)
    /\ scanned' = Some(r.scanned)
    /\ UNCHANGED <<events, spatial_index>>

ApplyFilters ==
    \E req \in Requests :
        ApplyFiltersStep(req, apply_filters(self, org_arg(req.org), req.date_range,
                                            req.sentiment_range))

ExportCsv ==
    /\ call' = [op |-> "export_csv"]
    /\ ret' = export_csv(self)
    /\ UNCHANGED <<events, spatial_index, view, scanned>>

MemoryFootprint ==
    /\ call' = [op |-> "memory_footprint"]
    /\ ret' = memory_footprint(self)
    /\ UNCHANGED <<events, spatial_index, view, scanned>>

Next == LoadData \/ ApplyFilters \/ ExportCsv \/ MemoryFootprint

Spec == Init /\ [][Next]_vars

(* ---------------------------------------------------------------------- *)
(* Properties                                                              *)

Range(seq) == {seq[i] : i \in DOMAIN seq}
Count(seq, x) == Cardinality({i \in DOMAIN seq : seq[i] = x})
Ids(evs) == [i \in DOMAIN evs |-> evs[i].id]
Data(entries) == [i \in DOMAIN entries |-> entries[i].data]
DegenerateBox(p) == <<p[1], p[2], p[1], p[2]>>

(* sub is seq with some elements left out, the others in seq's order. *)
RECURSIVE IsSubseq(_, _)
IsSubseq(sub, seq) ==
    IF sub = <<>> THEN TRUE
    ELSE IF seq = <<>> THEN FALSE
    ELSE IF Head(sub) = Head(seq) THEN IsSubseq(Tail(sub), Tail(seq))
    ELSE IsSubseq(sub, Tail(seq))

(* C1. Load atomicity: a load that fails leaves the record sequence and    *)
(* the spatial index exactly as they were before the call; a load that     *)
(* succeeds replaces both by the structures it built and returns.          *)
C1_LoadAtomicity ==
    [][/\ (call'.op = "load_data" /\ ret'.kind = "Err")
            => (events' = events /\ spatial_index' = spatial_index)
       /\ (call'.op = "load_data" /\ ret'.kind = "Ok")
            => (events' = ret'.value.events
                /\ spatial_index' = ret'.value.spatial_index)]_vars

(* A load has failed on a store that holds records. *)
C1_Witness ==
    /\ call.op = "load_data"
    /\ ret.kind = "Err"
    /\ Len(events) > 0
    /\ Len(spatial_index) > 0

(* C2. Store/index consistency: between operations the spatial index holds *)
(* exactly one entry per record of the event store, none without a record, *)
(* and each entry's box is the degenerate box at its record's location.    *)
C2_StoreIndexConsistency ==
    /\ Len(spatial_index) = Len(events)
    /\ \A i \in DOMAIN spatial_index :
          /\ spatial_index[i].mbr = DegenerateBox(spatial_index[i].data.geometry)
          /\ Count(events, spatial_index[i].data)
                = Count(Data(spatial_index), spatial_index[i].data)
    /\ \A i \in DOMAIN events : events[i] \in Range(Data(spatial_index))

(* A buffer of more than two features, two of them points at different     *)
(* places, has been loaded.                                                *)
C2_Witness ==
    /\ call.op = "load_data"
    /\ ret.kind = "Ok"
    /\ Len(events) = 2
    /\ events[1].geometry # events[2].geometry
    /\ Len(call.data.features) > 2

(* C3. Filter conjunction: a record is in the result of a filter iff it    *)
(* satisfies every supplied predicate: date within [min, max], sentiment   *)
(* within [min, max], org equal to the requested org when one is supplied; *)
(* with no org supplied every org matches.                                 *)
Satisfies(event, req) ==
    /\ req.org = None \/ event.org = req.org[1]
    /\ req.date_range[1] <= event.date /\ event.date <= req.date_range[2]
    /\ req.sentiment_range[1] <= event.sentiment
    /\ event.sentiment <= req.sentiment_range[2]

C3_FilterConjunction ==
    call.op = "apply_filters" =>
        \A i \in DOMAIN events :
            (events[i] \in Range(ret.value)) <=> Satisfies(events[i], call.req)

(* C4. Spatial routing: a filter request that carries a bounding box takes *)
(* its candidates from the spatial index's box query, and scans the whole  *)
(* event store only when no box is supplied.                               *)
C4_SpatialRouting ==
    call.op = "apply_filters" =>
        LET box == call.req.bounding_box
            candidates == IF box = None THEN events
                          ELSE Data(query_box(spatial_index, box[1]))
        IN  /\ scanned # None
            /\ Len(scanned[1]) = Len(candidates)
            /\ \A e \in Range(candidates) \cup Range(scanned[1]) :
                  Count(scanned[1], e) = Count(candidates, e)

(* C5. Point-only invariant: a buffer that decodes loads successfully      *)
(* whatever geometries it mixes, and afterwards the store holds one record *)
(* per point feature of that buffer, in order, and nothing else.           *)
C5_PointOnly ==
    call.op = "load_data" =>
        LET points == SelectSeq(call.data.features, LAMBDA f : f[2] = "Point")
        IN  /\ ret.kind = "Ok" <=> call.data.ok
            /\ ret.kind = "Ok" =>
                  /\ Len(events) = Len(points)
                  /\ \A i \in DOMAIN events : events[i].id = points[i][1]

(* A buffer mixing point and non-point features has been loaded. *)
C5_Witness ==
    /\ call.op = "load_data"
    /\ ret.kind = "Ok"
    /\ \E i, j \in DOMAIN call.data.features :
          /\ call.data.features[i][2] = "Point"
          /\ call.data.features[j][2] # "Point"
    /\ Len(events) > 0

(* C6. Index fidelity: for every record of the store, the index's box      *)
(* query with the degenerate box at the record's point returns that        *)
(* record; the index of an empty store answers every query with nothing.   *)
ProbeBoxes == {<<x, y, x + w, y + h>> : x \in 0..2, y \in 0..2, w \in 0..2, h \in 0..2}

C6_IndexFidelity ==
    /\ \A i \in DOMAIN events :
          events[i] \in
             Range(Data(query_box(spatial_index, DegenerateBox(events[i].geometry))))
    /\ events = <<>> =>
          \A box \in ProbeBoxes : query_box(spatial_index, box) = <<>>

(* The store holds records at different places, one of them off the diagonal. *)
C6_Witness ==
    /\ Len(events) >= 2
    /\ \E i, j \in DOMAIN events :
          /\ events[i].geometry # events[j].geometry
          /\ events[i].geometry[1] # events[i].geometry[2]

(* C7. Empty-range policy: a filter whose date range or sentiment range    *)
(* has min > max returns the empty result, not an error, whatever the      *)
(* other predicates are.                                                   *)
C7_EmptyRange ==
    (/\ call.op = "apply_filters"
     /\ \/ call.req.date_range[1] > call.req.date_range[2]
        \/ call.req.sentiment_range[1] > call.req.sentiment_range[2])
    => (ret.kind = "Json" /\ ret.value = <<>>)

(* A filter with min > max in its date range has run on a store holding a  *)
(* record that lies between the two bounds and meets the other predicates. *)
C7_Witness ==
    /\ call.op = "apply_filters"
    /\ call.req.date_range[1] > call.req.date_range[2]
    /\ call.req.sentiment_range[1] <= call.req.sentiment_range[2]
    /\ \E i \in DOMAIN events :
          /\ call.req.org = Some(events[i].org)
          /\ call.req.date_range[2] <= events[i].date
          /\ events[i].date <= call.req.date_range[1]
          /\ call.req.sentiment_range[1] <= events[i].sentiment
          /\ events[i].sentiment <= call.req.sentiment_range[2]

(* C8. Result ordering: the result of a filter is a subsequence of the     *)
(* store's records, the store's order being the input order of the last    *)
(* successful load; on a, b, c the filter org = X, date [0,3],             *)
(* sentiment [0,1] returns a then c.                                       *)
ScenarioRequest ==
    [org |-> Some("X"), date_range |-> <<0, 3 * F64Unit>>,
     sentiment_range |-> <<0, F64Unit>>, bounding_box |-> None]

C8_ResultOrdering ==
    /\ call.op = "apply_filters" =>
          /\ IsSubseq(ret.value, events)
          /\ \A i, j \in DOMAIN ret.value : i # j => ret.value[i].id # ret.value[j].id
    /\ (call.op = "load_data" /\ ret.kind = "Ok") =>
          IsSubseq(Ids(events), [i \in DOMAIN call.data.features |->
                                    call.data.features[i][1]])
    /\ (call.op = "apply_filters" /\ call.req = ScenarioRequest
        /\ Ids(events) = <<"a", "b", "c">>)
          => Ids(ret.value) = <<"a", "c">>

(* The scenario's filter has run on the store loaded from a, b, c. *)
C8_Witness ==
    /\ call.op = "apply_filters"
    /\ call.req = ScenarioRequest
    /\ Ids(events) = <<"a", "b", "c">>

(* C9. Tabular export row count: for a filtered view of N records the      *)
(* export has exactly N+1 rows, the header and then one row per record of  *)
(* the view, in view order.                                                *)
C9_ExportRowCount ==
    (call.op = "export_csv" /\ view # None) =>
        /\ ret.kind = "Csv"
        /\ Len(ret.value) = Len(view[1]) + 1
        /\ ret.value[1] = Header
        /\ \A i \in DOMAIN view[1] : ret.value[i + 1] = csv_row(view[1][i])

(* C10. Memory footprint: memory_footprint returns record count times the  *)
(* per-record size, 0 on the empty store, with no wrap-around of the       *)
(* 32-bit product for any record count the store can hold.                 *)
Bytes(n) ==
    <<n % 256, (n \div 256) % 256, (n \div 65536) % 256, (n \div 16777216) % 256>>

====
